---- MODULE Spec2Model ----
(***************************************************************************)
(* The Cdn component (components/aws/cdn.ts) and the Resource proxy that   *)
(* follows it in the same file.                                            *)
(*                                                                         *)
(* new Cdn(name, args) runs six local functions in sequence.  The          *)
(* functions that need the value of the domain do not read it: they        *)
(* register a callback on an Output with apply(), and the callback runs    *)
(* after the synchronous constructor has returned, once the Output it is   *)
(* registered on has resolved.  The constructor's steps are the actions    *)
(* normalizeDomain .. constructorEnd, one per call of lines 110-121; the   *)
(* callbacks are the actions named ...Apply.                               *)
(***************************************************************************)
EXTENDS Integers, Sequences, FiniteSets, TLC

\* Bounds of the model: the longest alias list and redirect list a caller passes.
MaxAliases == 2
MaxRedirects == 2

(***************************************************************************)
(* JavaScript values.  A value carries its type, so that truthiness, the   *)
(* ?? operator and object spread can be computed as JavaScript does.       *)
(***************************************************************************)
Undefined == [type |-> "undefined"]
Str(s) == [type |-> "string", val |-> s]
Arr(a) == [type |-> "array", val |-> a]
Obj(o) == [type |-> "object", val |-> o]
\* An Input<T> given as an Output/Promise of v: an object, hence truthy.
Out(v) == [type |-> "output", val |-> v]

\* if (v), !v, v && w: undefined and "" are falsy, objects and outputs truthy.
Truthy(v) ==
  CASE v.type = "undefined" -> FALSE
    [] v.type = "string" -> v.val # ""
    [] OTHER -> TRUE

\* o.k: the property, undefined when the object has no such key.
Get(o, k) == IF k \in DOMAIN o THEN o[k] ELSE Undefined

\* { ...defaults, ...o }: every own key of o wins, also one holding undefined.
Spread(defaults, o) ==
  [k \in (DOMAIN defaults) \cup (DOMAIN o) |->
     IF k \in DOMAIN o THEN o[k] ELSE defaults[k]]

\* a ?? b: b only when a is undefined (an empty string is kept).
Coalesce(a, b) == IF a.type = "undefined" THEN b ELSE a

\* output(v): the value an Input resolves to.
Unwrap(v) == IF v.type = "output" THEN v.val ELSE v

(***************************************************************************)
(* Outputs: the state of an asynchronous value.                            *)
(***************************************************************************)
NoOutput == [state |-> "undefined"]
Pending == [state |-> "pending"]
Resolved(v) == [state |-> "resolved", val |-> v]
Rejected == [state |-> "rejected"]

(***************************************************************************)
(* Inputs.                                                                 *)
(***************************************************************************)
name == "MyCdn"

Names == {"example.com", "www.example.com"}
ZoneNames == {"example.com"}
ZoneIds == {"Z2FDTNDATAQYW2"}

BoundedSeq(S, n) == UNION {[1..m -> S] : m \in 0..n}

\* A key the caller's object literal does not have (not a JavaScript value).
Absent == [type |-> "absent"]
MkObject(f) == [k \in {k \in DOMAIN f : f[k] # Absent} |-> f[k]]

\* CdnDomainArgs as a caller can write them: every optional key may be left
\* out or hold undefined; strings may be empty.
DomainObjects ==
  {MkObject([domainName |-> dn, aliases |-> al, redirects |-> rd,
             hostedZone |-> hz, hostedZoneId |-> hzid]) :
     dn \in {Absent, Str("")} \cup {Str(n) : n \in Names},
     al \in {Absent, Undefined} \cup {Arr(a) : a \in BoundedSeq(Names, MaxAliases)},
     rd \in {Absent, Undefined} \cup {Arr(r) : r \in BoundedSeq(Names, MaxRedirects)},
     hz \in {Absent, Str("")} \cup {Str(z) : z \in ZoneNames},
     hzid \in {Absent, Str("")} \cup {Str(z) : z \in ZoneIds}}

\* args.domain?: Input<string | CdnDomainArgs>
DomainInputs ==
  LET plain == {Str(s) : s \in {""} \cup Names} \cup {Obj(o) : o \in DomainObjects}
  IN  {Undefined} \cup plain \cup {Out(v) : v \in plain}

VARIABLES
  args,            \* the CdnArgs of this construction
  pc,              \* the constructor's next call; "done" once it has returned
  callbacks,       \* apply() callbacks registered and not yet run
  ran,             \* apply() callbacks that have run (returned or thrown)
  domain,          \* const domain = normalizeDomain()
  zoneId,          \* const zoneId = lookupHostedZoneId()
  aliases,         \* the Output handed to the distribution as its aliases
  lookups,         \* HostedZoneLookup resources constructed, in order
  certificates,    \* DnsValidatedCertificate resources constructed
  distributions,   \* aws.cloudfront.Distribution resources constructed
  records,         \* aws.route53.Record resources constructed
  redirects,       \* HttpsRedirect resources constructed
  errors,          \* errors thrown, in order
  thisDistribution,\* this.distribution
  thisDomainUrl,   \* this._domainUrl
  env,             \* process.env
  links,           \* globalThis.$SST_LINKS
  result           \* what the last read of Resource[prop] did

cdnVars == <<args, pc, callbacks, ran, domain, zoneId, aliases, lookups,
             certificates, distributions, records, redirects, errors,
             thisDistribution, thisDomainUrl>>
resourceVars == <<env, links, result>>
vars == <<cdnVars, resourceVars>>

(***************************************************************************)
(* The constructor, lines 106-258.                                         *)
(***************************************************************************)
MissingDomainName == "Missing \"domainName\" for domain."
BothHostedZones == "Do not set both \"hostedZone\" and \"hostedZoneId\"."
\* Spreading undefined into an array, reading .length of undefined.
TypeError == "TypeError"

Returned(v) == [threw |-> FALSE, val |-> v]
Threw(e) == [threw |-> TRUE, error |-> e]

\* The callback of lines 126-138, applied to the resolved args.domain.
normalizeDomainCallback(d) ==
  IF d.type = "string"
  THEN Returned([domainName |-> d, aliases |-> Arr(<<>>), redirects |-> Arr(<<>>)])
  ELSE IF ~Truthy(Get(d.val, "domainName"))
  THEN Threw(MissingDomainName)
  ELSE IF Truthy(Get(d.val, "hostedZone")) /\ Truthy(Get(d.val, "hostedZoneId"))
  THEN Threw(BothHostedZones)
  ELSE Returned(Spread([aliases |-> Arr(<<>>), redirects |-> Arr(<<>>)], d.val))

\* const domain = normalizeDomain(): undefined for a falsy args.domain, else
\* an Output whose callback has not run yet.
normalizeDomain ==
  /\ pc = "normalizeDomain"
  /\ IF ~Truthy(args.domain)
     THEN domain' = NoOutput /\ callbacks' = callbacks
     ELSE domain' = Pending /\ callbacks' = callbacks \cup {"normalizeDomain"}
  /\ pc' = "lookupHostedZoneId"
  /\ UNCHANGED <<args, ran, zoneId, aliases, lookups, certificates, distributions,
                 records, redirects, errors, thisDistribution, thisDomainUrl>>
  /\ UNCHANGED resourceVars

\* The callback of normalizeDomain runs.  A throw rejects domain, and with it
\* every Output derived from it: their callbacks never run.
normalizeDomainApply ==
  /\ pc = "done"
  /\ "normalizeDomain" \in callbacks
  /\ LET r == normalizeDomainCallback(Unwrap(args.domain))
     IN  IF r.threw
         THEN /\ domain' = Rejected
              /\ zoneId' = IF zoneId = Pending THEN Rejected ELSE zoneId
              /\ aliases' = IF aliases = Pending THEN Rejected ELSE aliases
              /\ errors' = Append(errors, r.error)
              /\ callbacks' = {}
         ELSE /\ domain' = Resolved(r.val)
              /\ callbacks' = callbacks \ {"normalizeDomain"}
              /\ UNCHANGED <<zoneId, aliases, errors>>
  /\ ran' = ran \cup {"normalizeDomain"}
  /\ UNCHANGED <<args, pc, lookups, certificates, distributions, records,
                 redirects, thisDistribution, thisDomainUrl>>
  /\ UNCHANGED resourceVars

\* const zoneId = lookupHostedZoneId(), lines 141-155: the synchronous part.
lookupHostedZoneId ==
  /\ pc = "lookupHostedZoneId"
  /\ IF domain = NoOutput
     THEN zoneId' = NoOutput /\ callbacks' = callbacks
     ELSE zoneId' = Pending /\ callbacks' = callbacks \cup {"lookupHostedZoneId"}
  /\ pc' = "createSsl"
  /\ UNCHANGED <<args, ran, domain, aliases, lookups, certificates, distributions,
                 records, redirects, errors, thisDistribution, thisDomainUrl>>
  /\ UNCHANGED resourceVars

\* A lookup that ignores the hostedZone override.
HostedZoneLookup_DomainNameOnly(d) ==
  [resourceName |-> name \o "HostedZoneLookup", domain |-> Get(d, "domainName")]

\* new HostedZoneLookup(`${name}HostedZoneLookup`, { domain: ... })
HostedZoneLookup(d) ==
  [resourceName |-> name \o "HostedZoneLookup",
   domain |-> Coalesce(Get(d, "hostedZone"), Get(d, "domainName"))]

\* The callback of lines 144-154.
lookupHostedZoneIdApply ==
  /\ pc = "done"
  /\ "lookupHostedZoneId" \in callbacks
  /\ domain.state = "resolved"
  /\ IF Truthy(Get(domain.val, "hostedZoneId"))
     THEN /\ zoneId' = Resolved(Get(domain.val, "hostedZoneId"))
          /\ lookups' = lookups
     ELSE /\ lookups' = Append(lookups, HostedZoneLookup(domain.val))
          /\ zoneId' = Resolved(Out(<<"HostedZoneLookup", "zoneId">>))
  /\ callbacks' = callbacks \ {"lookupHostedZoneId"}
  /\ ran' = ran \cup {"lookupHostedZoneId"}
  /\ UNCHANGED <<args, pc, domain, aliases, certificates, distributions, records,
                 redirects, errors, thisDistribution, thisDomainUrl>>
  /\ UNCHANGED resourceVars

\* new DnsValidatedCertificate(`${name}Ssl`, ...): its arguments are the
\* Outputs themselves (domain.domainName, domain.aliases, zoneId), unread.
DnsValidatedCertificate ==
  [resourceName |-> name \o "Ssl",
   domainName |-> <<"domain", "domainName">>,
   alternativeNames |-> <<"domain", "aliases">>,
   zoneId |-> <<"zoneId">>,
   provider |-> "us-east-1"]

\* createSsl without its guard: a certificate whatever the domain.
createSsl_Unguarded ==
  /\ pc = "createSsl"
  /\ certificates' = Append(certificates, DnsValidatedCertificate)
  /\ pc' = "createDistribution"
  /\ UNCHANGED <<args, callbacks, ran, domain, zoneId, aliases, lookups,
                 distributions, records, redirects, errors, thisDistribution,
                 thisDomainUrl>>
  /\ UNCHANGED resourceVars

\* const certificate = createSsl(), lines 157-171.
createSsl ==
  /\ pc = "createSsl"
  /\ IF domain = NoOutput \/ zoneId = NoOutput
     THEN certificates' = certificates
     ELSE certificates' = Append(certificates, DnsValidatedCertificate)
  /\ pc' = "createDistribution"
  /\ UNCHANGED <<args, callbacks, ran, domain, zoneId, aliases, lookups,
                 distributions, records, redirects, errors, thisDistribution,
                 thisDomainUrl>>
  /\ UNCHANGED resourceVars

\* The defaults of lines 177-203 that depend on the construction.
Distribution ==
  [resourceName |-> name \o "Distribution",
   aliases |-> IF domain # NoOutput THEN Out(<<"domain">>) ELSE Arr(<<>>),
   viewerCertificate |->
     IF certificates # <<>>
     THEN [acmCertificateArn |-> <<"certificate", "certificateArn">>,
           sslSupportMethod |-> "sni-only"]
     ELSE [cloudfrontDefaultCertificate |-> TRUE]]

\* const distribution = createDistribution(), lines 173-207.
createDistribution ==
  /\ pc = "createDistribution"
  /\ distributions' = Append(distributions, Distribution)
  /\ IF domain # NoOutput
     THEN aliases' = Pending /\ callbacks' = callbacks \cup {"aliases"}
     ELSE aliases' = NoOutput /\ callbacks' = callbacks
  /\ pc' = "createRoute53Records"
  /\ UNCHANGED <<args, ran, domain, zoneId, lookups, certificates, records,
                 redirects, errors, thisDistribution, thisDomainUrl>>
  /\ UNCHANGED resourceVars

\* [domain.domainName, ...domain.aliases]: throws when aliases is not iterable.
domainNames(d) ==
  IF Get(d, "aliases").type = "array"
  THEN Returned(<<Get(d, "domainName").val>> \o Get(d, "aliases").val)
  ELSE Threw(TypeError)

\* The callback of lines 191-194.
aliasesApply ==
  /\ pc = "done"
  /\ "aliases" \in callbacks
  /\ domain.state = "resolved"
  /\ LET r == domainNames(domain.val)
     IN  IF r.threw
         THEN aliases' = Rejected /\ errors' = Append(errors, r.error)
         ELSE aliases' = Resolved(r.val) /\ errors' = errors
  /\ callbacks' = callbacks \ {"aliases"}
  /\ ran' = ran \cup {"aliases"}
  /\ UNCHANGED <<args, pc, domain, zoneId, lookups, certificates, distributions,
                 records, redirects, thisDistribution, thisDomainUrl>>
  /\ UNCHANGED resourceVars

\* sanitizeToPascalCase (../naming.js): the string without its separators,
\* each word capitalised; given here on the names of the model.
sanitizeToPascalCase(s) ==
  CASE s = "example.com" -> "ExampleCom"
    [] s = "www.example.com" -> "WwwExampleCom"
    [] OTHER -> ""

\* for (const type of ["A", "AAAA"])
RecordTypes == <<"A", "AAAA">>

\* A record whose alias target is written out instead of taken from the
\* distribution.
Record_LiteralTarget(recordName, type) ==
  [resourceName |-> name \o type \o "Record" \o sanitizeToPascalCase(recordName),
   name |-> recordName,
   zoneId |-> <<"zoneId">>,
   type |-> type,
   aliases |-> <<[name |-> <<"literal", "d111111abcdef8.cloudfront.net">>,
                  zoneId |-> <<"literal", "Z2FDTNDATAQYW2">>,
                  evaluateTargetHealth |-> TRUE]>>]

\* new aws.route53.Record(`${name}${type}Record${...}`, ...), lines 218-233.
Record(recordName, type) ==
  [resourceName |-> name \o type \o "Record" \o sanitizeToPascalCase(recordName),
   name |-> recordName,
   zoneId |-> <<"zoneId">>,
   type |-> type,
   aliases |-> <<[name |-> <<"distribution", "domainName">>,
                  zoneId |-> <<"distribution", "hostedZoneId">>,
                  evaluateTargetHealth |-> TRUE]>>]

\* The two loops of lines 216-235: for every name in order, A then AAAA.
RecordsFor(names) ==
  [i \in 1..(Len(RecordTypes) * Len(names)) |->
     Record(names[((i - 1) \div Len(RecordTypes)) + 1],
            RecordTypes[((i - 1) % Len(RecordTypes)) + 1])]

\* createRoute53Records(), lines 209-237: the synchronous part.
createRoute53Records ==
  /\ pc = "createRoute53Records"
  /\ IF domain = NoOutput \/ zoneId = NoOutput
     THEN callbacks' = callbacks
     ELSE callbacks' = callbacks \cup {"createRoute53Records"}
  /\ pc' = "createRedirects"
  /\ UNCHANGED <<args, ran, domain, zoneId, aliases, lookups, certificates,
                 distributions, records, redirects, errors, thisDistribution,
                 thisDomainUrl>>
  /\ UNCHANGED resourceVars

\* The callback of lines 215-236.
createRoute53RecordsApply ==
  /\ pc = "done"
  /\ "createRoute53Records" \in callbacks
  /\ domain.state = "resolved"
  /\ LET r == domainNames(domain.val)
     IN  IF r.threw
         THEN records' = records /\ errors' = Append(errors, r.error)
         ELSE records' = records \o RecordsFor(r.val) /\ errors' = errors
  /\ callbacks' = callbacks \ {"createRoute53Records"}
  /\ ran' = ran \cup {"createRoute53Records"}
  /\ UNCHANGED <<args, pc, domain, zoneId, aliases, lookups, certificates,
                 distributions, redirects, thisDistribution, thisDomainUrl>>
  /\ UNCHANGED resourceVars

\* A redirect with source and target exchanged.
HttpsRedirect_TargetFirstSource(d) ==
  [resourceName |-> name \o "Redirect",
   zoneId |-> <<"zoneId">>,
   sourceDomains |-> <<Get(d, "domainName").val>>,
   targetDomain |-> Get(d, "redirects").val[1]]

\* new HttpsRedirect(`${name}Redirect`, ...), lines 247-255.
HttpsRedirect(d) ==
  [resourceName |-> name \o "Redirect",
   zoneId |-> <<"zoneId">>,
   sourceDomains |-> Get(d, "redirects").val,
   targetDomain |-> Get(d, "domainName").val]

\* createRedirects(), lines 239-257: the synchronous part.
createRedirects ==
  /\ pc = "createRedirects"
  /\ IF zoneId = NoOutput \/ domain = NoOutput
     THEN callbacks' = callbacks
     ELSE callbacks' = callbacks \cup {"createRedirects"}
  /\ pc' = "constructorEnd"
  /\ UNCHANGED <<args, ran, domain, zoneId, aliases, lookups, certificates,
                 distributions, records, redirects, errors, thisDistribution,
                 thisDomainUrl>>
  /\ UNCHANGED resourceVars

\* The callback of lines 244-256; domain.redirects.length throws on undefined.
createRedirectsApply ==
  /\ pc = "done"
  /\ "createRedirects" \in callbacks
  /\ domain.state = "resolved"
  /\ IF Get(domain.val, "redirects").type # "array"
     THEN redirects' = redirects /\ errors' = Append(errors, TypeError)
     ELSE IF Len(Get(domain.val, "redirects").val) = 0
     THEN redirects' = redirects /\ errors' = errors
     ELSE redirects' = Append(redirects, HttpsRedirect(domain.val)) /\ errors' = errors
  /\ callbacks' = callbacks \ {"createRedirects"}
  /\ ran' = ran \cup {"createRedirects"}
  /\ UNCHANGED <<args, pc, domain, zoneId, aliases, lookups, certificates,
                 distributions, records, thisDistribution, thisDomainUrl>>
  /\ UNCHANGED resourceVars

\* Lines 118-121.  domain?.domainName is a property of an Output, itself an
\* Output and so truthy whenever domain is one.
constructorEnd ==
  /\ pc = "constructorEnd"
  /\ thisDistribution' = Out(<<"distribution">>)
  /\ thisDomainUrl' = IF domain # NoOutput
                      THEN Out(<<"https://", <<"domain", "domainName">>>>)
                      ELSE Undefined
  /\ pc' = "done"
  /\ UNCHANGED <<args, callbacks, ran, domain, zoneId, aliases, lookups,
                 certificates, distributions, records, redirects, errors>>
  /\ UNCHANGED resourceVars

\* The outputs a resource's arguments reference: what the engine sequences
\* the resource after.  A Record references zoneId and two outputs of the
\* distribution (lines 222-227); an HttpsRedirect references zoneId, and
\* its sourceDomains and targetDomain are plain values (lines 250-252).
RecordDependsOn(r) ==
  {r.zoneId[1]} \cup UNION {{a.name[1], a.zoneId[1]} : a \in {r.aliases[i] : i \in DOMAIN r.aliases}}
HttpsRedirectDependsOn(r) == {r.zoneId[1]}

\* get url(), lines 263-265.
url ==
  IF thisDistribution = Undefined
  THEN Threw(TypeError)
  ELSE Returned(Out(<<"https://", <<"distribution", "domainName">>>>))

\* get domainUrl(), lines 271-273.
domainUrl == thisDomainUrl

(***************************************************************************)
(* Resource, lines 285-302.                                                *)
(***************************************************************************)
ResourceNames == {"MyBucket", "MyTable"}

\* What a linked resource serialises to, and JSON.parse of it.
JsonTexts == {"\"bucket-1\"", "{\"name\":\"table-1\"}"}
JSONparse(text) ==
  CASE text = "\"bucket-1\"" -> Str("bucket-1")
    [] text = "{\"name\":\"table-1\"}" -> Obj([name |-> Str("table-1")])

LinkValues == {Str("linked-bucket"), Obj([name |-> Str("linked-table")])}

\* process.env: SST_RESOURCE_<name> unset, empty, or a serialised value.
Environments ==
  UNION {[{"SST_RESOURCE_" \o n : n \in S} -> {""} \cup JsonTexts] :
           S \in SUBSET ResourceNames}
LinkTables == UNION {[S -> LinkValues] : S \in SUBSET ResourceNames}

\* The get trap reading the link table before the environment.
ResourceGetTrap_LinksFirst(prop) ==
  LET envName == "SST_RESOURCE_" \o prop
  IN  IF prop \in DOMAIN links
      THEN Returned(links[prop])
      ELSE IF envName \in DOMAIN env /\ env[envName] # ""
      THEN Returned(JSONparse(env[envName]))
      ELSE Threw("\"" \o prop \o "\" is not linked")

\* The get trap, lines 288-300.
ResourceGetTrap(prop) ==
  LET envName == "SST_RESOURCE_" \o prop
  IN  IF envName \in DOMAIN env /\ env[envName] # ""
      THEN Returned(JSONparse(env[envName]))
      ELSE IF prop \in DOMAIN links
      THEN Returned(links[prop])
      ELSE Threw("\"" \o prop \o "\" is not linked")

\* Resource[prop] is read.
ResourceGet ==
  /\ \E prop \in ResourceNames : result' = [prop |-> prop, outcome |-> ResourceGetTrap(prop)]
  /\ UNCHANGED <<env, links>>
  /\ UNCHANGED cdnVars

(***************************************************************************)
(* The two systems.                                                        *)
(***************************************************************************)
NoResult == [prop |-> "", outcome |-> Returned(Undefined)]

InitCdn ==
  /\ pc = "normalizeDomain"
  /\ callbacks = {}
  /\ ran = {}
  /\ domain = NoOutput
  /\ zoneId = NoOutput
  /\ aliases = NoOutput
  /\ lookups = <<>>
  /\ certificates = <<>>
  /\ distributions = <<>>
  /\ records = <<>>
  /\ redirects = <<>>
  /\ errors = <<>>
  /\ thisDistribution = Undefined
  /\ thisDomainUrl = Undefined

\* One construction of a Cdn, for every args.domain.
Init ==
  /\ args \in {[domain |-> d] : d \in DomainInputs}
  /\ InitCdn
  /\ env = << >>
  /\ links = << >>
  /\ result = NoResult

Next ==
  \/ normalizeDomain
  \/ lookupHostedZoneId
  \/ createSsl
  \/ createDistribution
  \/ createRoute53Records
  \/ createRedirects
  \/ constructorEnd
  \/ normalizeDomainApply
  \/ lookupHostedZoneIdApply
  \/ aliasesApply
  \/ createRoute53RecordsApply
  \/ createRedirectsApply

Spec == Init /\ [][Next]_vars

\* Reads of Resource, for every environment and link table.
InitResource ==
  /\ args = [domain |-> Undefined]
  /\ InitCdn
  /\ env \in Environments
  /\ links \in LinkTables
  /\ result = NoResult

NextResource == ResourceGet

SpecResource == InitResource /\ [][NextResource]_vars

(***************************************************************************)
(* Properties.                                                             *)
(***************************************************************************)
\* What the caller wrote for a field of the domain (a bare string is the
\* domainName and nothing else).
Given(k) ==
  LET d == Unwrap(args.domain)
  IN  IF d.type = "object" THEN Get(d.val, k)
      ELSE IF k = "domainName" THEN d
      ELSE Undefined
\* The list the caller supplied for k, empty when none was supplied.
GivenList(k) == IF Given(k).type = "array" THEN Given(k).val ELSE <<>>

ValidationErrorRaised ==
  \E i \in DOMAIN errors : errors[i] \in {MissingDomainName, BothHostedZones}
ResourcesConstructed ==
  Len(lookups) + Len(certificates) + Len(distributions) + Len(records) + Len(redirects)

\* C1: when the domain descriptor lacks domainName, or sets both hostedZone
\* and hostedZoneId, the validation error is raised before the component has
\* constructed any resource.
C1_ValidationBeforeAnyResource ==
  ValidationErrorRaised => ResourcesConstructed = 0

\* C2: with args.domain absent no zone lookup, certificate, DNS record or
\* redirect is ever constructed; once constructed, the component has exactly
\* one distribution, domainUrl is undefined and url is present.
C2_AbsentDomain ==
  args.domain = Undefined =>
    /\ lookups = <<>> /\ certificates = <<>> /\ records = <<>> /\ redirects = <<>>
    /\ pc = "done" =>
         /\ domainUrl = Undefined
         /\ ~url.threw /\ url.val.type = "output"
         /\ Len(distributions) = 1

C2_Witness ==
  args.domain = Undefined /\ pc = "done" /\ Len(distributions) = 1

\* C3: the zone lookup is constructed at most once per component; once the
\* zone id is resolved there is no lookup and the given id is the zone id when
\* hostedZoneId is set, and otherwise exactly one lookup, by hostedZone when
\* that is present and by domainName when not; the consumers of the zone id
\* (certificate, records, redirect) add none.
C3_ZoneLookup ==
  /\ Len(lookups) <= 1
  /\ "lookupHostedZoneId" \notin ran => lookups = <<>>
  /\ "lookupHostedZoneId" \in ran =>
       IF Truthy(Given("hostedZoneId"))
       THEN lookups = <<>> /\ zoneId = Resolved(Given("hostedZoneId"))
       ELSE /\ Len(lookups) = 1
            /\ lookups[1].domain =
                 IF Given("hostedZone") # Undefined
                 THEN Given("hostedZone") ELSE Given("domainName")

C3_Witness ==
  /\ Len(lookups) = 1
  /\ Given("domainName") = Str("www.example.com")
  /\ lookups[1].domain = Str("example.com")
  /\ certificates # <<>> /\ records # <<>> /\ redirects # <<>>

\* C4: for a valid domain with N aliases, once the record step has run there
\* are exactly 2 * (N + 1) records: for each name of [domainName, ...aliases]
\* one A and one AAAA record, each aliasing the distribution's domain name and
\* hosted zone id with evaluateTargetHealth enabled.
C4_RecordCount ==
  "createRoute53Records" \in ran =>
    LET names == <<Given("domainName").val>> \o GivenList("aliases")
    IN  /\ Len(records) = 2 * Len(names)
        /\ \A i \in 1..Len(names) :
             /\ records[2 * i - 1].name = names[i] /\ records[2 * i - 1].type = "A"
             /\ records[2 * i].name = names[i] /\ records[2 * i].type = "AAAA"
        /\ \A i \in DOMAIN records :
             records[i].aliases = <<[name |-> <<"distribution", "domainName">>,
                                     zoneId |-> <<"distribution", "hostedZoneId">>,
                                     evaluateTargetHealth |-> TRUE]>>

\* C5: the resource names of the DNS records of one component are pairwise
\* distinct.
C5_RecordNamesDistinct ==
  \A i, j \in DOMAIN records :
    i # j => records[i].resourceName # records[j].resourceName

\* C6 as stated: every DNS record and the redirect reference both an output
\* of the distribution and the resolved zone id.
C6_AllDependOnDistributionAndZone ==
  /\ \A i \in DOMAIN records :
       {"distribution", "zoneId"} \subseteq RecordDependsOn(records[i])
  /\ \A i \in DOMAIN redirects :
       {"distribution", "zoneId"} \subseteq HttpsRedirectDependsOn(redirects[i])

\* C6 amended: every DNS record references both an output of the distribution
\* and the resolved zone id; the redirect references the resolved zone id.
C6_RecordsDependOnBoth ==
  /\ \A i \in DOMAIN records :
       {"distribution", "zoneId"} \subseteq RecordDependsOn(records[i])
  /\ \A i \in DOMAIN redirects :
       "zoneId" \in HttpsRedirectDependsOn(redirects[i])

C6_Witness == records # <<>> /\ redirects # <<>>

\* C7: a domain the normalizer produces has a non-empty string domainName,
\* sequences for aliases and redirects, and not both hostedZone and
\* hostedZoneId set.
C7_NormalizedDomain ==
  domain.state = "resolved" =>
    LET d == domain.val
    IN  /\ Get(d, "domainName").type = "string" /\ Get(d, "domainName").val # ""
        /\ Get(d, "aliases").type = "array"
        /\ Get(d, "redirects").type = "array"
        /\ ~(Truthy(Get(d, "hostedZone")) /\ Truthy(Get(d, "hostedZoneId")))

\* C8: at most one redirect per component; once the redirect step has run
\* there is exactly one, from the whole redirect list to the primary
\* domainName, when the list is non-empty, and none when it is empty.
C8_Redirect ==
  /\ Len(redirects) <= 1
  /\ "createRedirects" \notin ran => redirects = <<>>
  /\ "createRedirects" \in ran =>
       IF GivenList("redirects") # <<>>
       THEN /\ Len(redirects) = 1
            /\ redirects[1].sourceDomains = Given("redirects").val
            /\ redirects[1].targetDomain = Given("domainName").val
       ELSE redirects = <<>>

C8_Witness ==
  /\ "createRedirects" \in ran
  /\ Len(redirects) = 1
  /\ Len(redirects[1].sourceDomains) = 2
  /\ redirects[1].targetDomain = "example.com"

\* C9: once the construction has run to its end there is exactly one
\* distribution; its default aliases are [domainName, ...aliases] for a
\* configured domain and empty without one; its viewer certificate is the
\* provisioned one (sni-only) exactly when a certificate was constructed.
C9_DistributionDefaults ==
  (pc = "done" /\ callbacks = {} /\ domain.state # "rejected") =>
    /\ Len(distributions) = 1
    /\ IF domain = NoOutput
       THEN distributions[1].aliases = Arr(<<>>)
       ELSE /\ distributions[1].aliases.type = "output"
            /\ aliases = Resolved(<<Given("domainName").val>> \o GivenList("aliases"))
    /\ IF certificates # <<>>
       THEN distributions[1].viewerCertificate =
              [acmCertificateArn |-> <<"certificate", "certificateArn">>,
               sslSupportMethod |-> "sni-only"]
       ELSE /\ distributions[1].viewerCertificate = [cloudfrontDefaultCertificate |-> TRUE]
            /\ distributions[1].aliases = Arr(<<>>)

====
